---- MODULE Spec2Model ----
(***************************************************************************)
(* Model of the HMP heightmap importer, code/AssetLib/HMP/HMPLoader.cpp.   *)
(*                                                                         *)
(* The importer is a sequential program.  One behaviour of Spec is one     *)
(* call of HMPImporter::InternReadFile on one input file; the variable pc  *)
(* is the position of that call in the source, and every action is one     *)
(* step of it (a straight-line block, a called function, or one iteration  *)
(* of a loop).  The input file is chosen in Init and never changes.        *)
(***************************************************************************)
EXTENDS Integers, Sequences, FiniteSets, TLC

VARIABLES
    input,        \* the file: canOpen, its size, iMagic, hdr, body, chunks
    pc,           \* position of the call in the source
    err,          \* message of the DeadlyImportError thrown, or NoError
    scene,        \* *pScene, the caller's aiScene (holds the aiMesh)
    szCurrent,    \* the read cursor, as a byte offset from mBuffer
    iSkin,        \* ReadFirstSkin: loop counter i of the skip loop
    pcMat,        \* ReadFirstSkin: the material held by the unique_ptr
    x, y,         \* loop counters of the vertex loop / face loop
    out,          \* CreateOutputFaceList: the new buffers and output cursors
    skinEvents,   \* history: what the skin parser did, in order
    vertexReads,  \* history: byte offsets of the vertex records read
    grid,         \* history: the decoded grid CreateOutputFaceList was given
    gridReads,    \* history: grid indices read by CreateOutputFaceList
    ub            \* history: undefined behaviour that has occurred

vars == <<input, pc, err, scene, szCurrent, iSkin, pcMat, x, y, out,
          skinEvents, vertexReads, grid, gridReads, ub>>

-----------------------------------------------------------------------------
(* Bounds of the model.                                                    *)

MaxNumVerts == 6        \* header numverts ranges over -1..MaxNumVerts
MaxSkins == 3           \* header numskins ranges over 0..MaxSkins
MaxSkinWords == 1       \* a skin chunk's payload is 0..MaxSkinWords words
MaxCut == 1             \* files are cut 0..MaxCut bytes before a boundary
MaxFrames == 1          \* header numframes ranges over -1..MaxFrames
MaxTriSize == 2         \* ftrisize_x ranges over NaN, Inf, 0..MaxTriSize
MaxSizeHigh == 1        \* file sizes of 0..MaxSizeHigh times 2^32, plus the low part
FarOffset == 1073741824 \* the low part of a file size stays below FarOffset
GridSide == 3           \* SquareInputs: a grid of GridSide x GridSide vertices

(* Program constants.                                                      *)

MinFileSize == 50       \* InternReadFile: fileSize < 50
HeaderSize == 120       \* ValidateHeader_HMP457: 120 > iFileSize
SkinOffset == 84        \* mBuffer + 84
GapSize == 36           \* szCurrent += 36
WordSize == 4           \* sizeof(uint32_t)
SizeofVertexHMP5 == 4   \* sizeof(HMP::Vertex_HMP5)
SizeofVertexHMP7 == 4   \* sizeof(HMP::Vertex_HMP7)
FloatMantissa == 16777216 \* float has 24 significant bits

-----------------------------------------------------------------------------
(* Exact rational numbers <<numerator, denominator>>, denominator > 0, in  *)
(* lowest terms.  They stand for the float values the importer computes.   *)

RECURSIVE Gcd(_, _)
Gcd(a, b) == IF b = 0 THEN a ELSE Gcd(b, a % b)

Abs(a) == IF a < 0 THEN -a ELSE a

Rat(n, d) ==
    LET s == IF d < 0 THEN -1 ELSE 1
        g == Gcd(Abs(n), Abs(d))
    IN  <<(s * n) \div g, (s * d) \div g>>

RMul(a, b) == Rat(a[1] * b[1], a[2] * b[2])
RAdd(a, b) == Rat(a[1] * b[2] + b[1] * a[2], a[2] * b[2])
RSub(a, b) == Rat(a[1] * b[2] - b[1] * a[2], a[2] * b[2])
RDiv(a, b) == Rat(a[1] * b[2], a[2] * b[1])
RInt(n) == <<n, 1>>

(* A float read from the header: NaN, an infinity, or a finite value.      *)
NaN == [cls |-> "nan", val |-> <<0, 1>>]
Inf == [cls |-> "inf", val |-> <<1, 1>>]
Fin(n, d) == [cls |-> "fin", val |-> Rat(n, d)]

IsFinite(f) == f.cls = "fin"
IsZero(f) == f.cls = "fin" /\ f.val[1] = 0
LessThanOne(f) == f.cls = "fin" /\ f.val[1] < f.val[2]

(* aiVector3D.  The vector is (x, y, z) / sqrt(len2): len2 is 1 except     *)
(* after Normalize, which divides by the (irrational) length.              *)
Vec3(vx, vy, vz) == [x |-> vx, y |-> vy, z |-> vz, len2 |-> <<1, 1>>]
ZeroVec == Vec3(<<0, 1>>, <<0, 1>>, <<0, 1>>)

Normalize(v) ==
    LET l2 == RAdd(RAdd(RMul(v.x, v.x), RMul(v.y, v.y)), RMul(v.z, v.z))
    IN  IF l2[1] = 0 THEN v ELSE [v EXCEPT !.len2 = RMul(v.len2, l2)]

(* An array on the heap: a null pointer, or new T[n] (value-initialised).  *)
Null == [alloc |-> FALSE, elems |-> <<>>]
NewArray(n, v) == [alloc |-> TRUE, elems |-> [i \in 1..n |-> v]]

-----------------------------------------------------------------------------
(* float arithmetic on the header's vertex counts.  After validation both  *)
(* quotients lie in 1..2^31, so the conversions to unsigned int are exact. *)

(* The spacing of the floats around the integer n >= 0.                    *)
RECURSIVE Ulp(_)
Ulp(n) == IF n < FloatMantissa THEN 1 ELSE 2 * Ulp(n \div 2)

(* (float)n for an int32_t n: round to nearest, ties to even.              *)
IntToFloat(n) ==
    LET a == Abs(n)
        u == Ulp(a)
        q == a \div u
        r == a % u
        up == (2 * r > u) \/ (2 * r = u /\ q % 2 = 1)
        m == IF up THEN (q + 1) * u ELSE q * u
    IN  IF n < 0 THEN -m ELSE m

(* The largest power of two t with k * t < 2^24 (2^24 for k = 0).          *)
RECURSIVE Scale(_)
Scale(k) ==
    IF k = 0 THEN FloatMantissa
    ELSE IF 2 * k >= FloatMantissa THEN 1 ELSE 2 * Scale(2 * k)

(* floor of the float quotient a / f, for a float a >= 0 with an integer   *)
(* value and a finite float f > 0: the exact quotient rounded to 24 bits,  *)
(* ties to even, then truncated.                                           *)
FloatDivFloor(a, f) ==
    LET P == a * f.val[2]
        Q == f.val[1]
        k == P \div Q
        r == P % Q
        t == Scale(k)
        u == Ulp(k)
        m == k \div u
        rem == k % u
    IN  IF k >= FloatMantissa
        THEN IF (2 * rem > u) \/ (2 * rem = u /\ (r > 0 \/ m % 2 = 1))
             THEN (m + 1) * u ELSE m * u
        ELSE IF t = 1
        THEN IF (2 * r > Q) \/ (2 * r = Q /\ k % 2 = 1) THEN k + 1 ELSE k
        ELSE IF Q - r <= Q \div (2 * t) THEN k + 1 ELSE k

(* pcHeader->numverts / pcHeader->fnumverts_x < 1.0f                       *)
QuotientLessThanOne(hdr) ==
    \/ hdr.numverts <= 0
    \/ FloatDivFloor(IntToFloat(hdr.numverts), hdr.fnumverts_x) = 0

(* const unsigned int height = (unsigned int)(numverts / fnumverts_x)      *)
HeightOf(hdr) ==
    FloatDivFloor(IntToFloat(hdr.numverts), hdr.fnumverts_x)

(* const unsigned int width = (unsigned int)pcHeader->fnumverts_x          *)
WidthOf(hdr) ==
    hdr.fnumverts_x.val[1] \div hdr.fnumverts_x.val[2]

-----------------------------------------------------------------------------
(* The input file.                                                         *)
(*                                                                         *)
(* hdr holds the fields of HMP::Header_HMP5 the importer reads (bytes      *)
(* 0..83).  body is the file from byte 84 on, as 32-bit little-endian      *)
(* words (a word with its top bit set is held as the negative int32_t of   *)
(* the same bits): the skin chunks, the 36-byte gap and the vertex         *)
(* records, which need not start at a multiple of 4.  fileSize is the length *)
(* of the file: a file may end anywhere, also inside the header or inside  *)
(* the body described here, and may be longer than it (zero padding).      *)
(* chunks records where the generator put the skin chunks: for each chunk  *)
(* the offset of its type tag and the offset of the end of its payload.    *)

Magics == {"HMP4_LE", "HMP4_BE", "HMP5_LE", "HMP5_BE", "HMP7_LE", "HMP7_BE",
           "other"}

Header(sx, sy, fnx, nv, nf, ns) ==
    [ftrisize_x |-> sx, ftrisize_y |-> sy, fnumverts_x |-> fnx,
     numverts |-> nv, numframes |-> nf, numskins |-> ns]

(* The words a generated file is made of.                                  *)
Layout == [skinType |-> 4, skinHeight |-> 1, fill |-> 7, gapFirst |-> 2]

Fill(n, w) == [i \in 1..n |-> w]

(* The i-th vertex record of a generated file (i from 0), as one word:     *)
(* bytes 0-1 the height z, byte 2 and byte 3 the normal fields.            *)
VertexWord(i) ==
    ((i * 21845 + 32767) % 65536)
    + 65536 * ((i * 50 + 100) % 162)
    + 16777216 * ((i * 30 + 3) % 128)

(* The first skin chunk: its type tag, or a zero word and two more words   *)
(* before the type tag ("retry"), or a second zero there ("fail").         *)
FirstSkinWords(quirk, w) ==
    (CASE quirk = "none"  -> <<Layout.skinType, w, Layout.skinHeight>>
       [] quirk = "retry" -> <<0, Layout.fill, Layout.fill,
                               Layout.skinType, w, Layout.skinHeight>>
       [] quirk = "fail"  -> <<0, Layout.fill, Layout.fill,
                               0, w, Layout.skinHeight>>)
    \o Fill(w, Layout.fill)

LaterSkinWords(w) ==
    <<Layout.skinType, w, Layout.skinHeight>> \o Fill(w, Layout.fill)

RECURSIVE Repeat(_, _)
Repeat(n, s) == IF n = 0 THEN <<>> ELSE s \o Repeat(n - 1, s)

BodyWords(ns, quirk, w, nverts) ==
    (IF ns = 0 THEN <<>>
     ELSE FirstSkinWords(quirk, w) \o Repeat(ns - 1, LaterSkinWords(w)))
    \o <<Layout.gapFirst>> \o Fill(GapSize \div WordSize - 1, 0)
    \o [i \in 1..nverts |-> VertexWord(i - 1)]

(* The byte offsets at which one part of a generated file ends.            *)
Boundaries(ns, quirk, w, nverts) ==
    LET first == SkinOffset + 3 * WordSize
                 + (IF quirk = "none" THEN 0 ELSE 3 * WordSize)
        chunk == 3 * WordSize + w * WordSize
        start(k) == first + w * WordSize + (k - 2) * chunk
        skinsEnd == IF ns = 0 THEN SkinOffset ELSE start(ns + 1)
    IN  {HeaderSize, skinsEnd, skinsEnd + GapSize,
         skinsEnd + GapSize + nverts * WordSize}
        \cup {start(k) + 3 * WordSize : k \in 2..ns}
        \cup {start(k) : k \in 2..(ns + 1)}

Max(S) == CHOOSE m \in S : \A n \in S : n <= m

FileSizes(ns, quirk, w, nverts) ==
    LET B == Boundaries(ns, quirk, w, nverts)
    IN  {b - c : b \in {n \in B : n >= HeaderSize}, c \in 0..MaxCut}
        \cup {Max(B) + WordSize}

(* Where the skin chunks of BodyWords(ns, quirk, w, _) lie.                *)
Chunks(ns, quirk, w) ==
    LET at1 == SkinOffset + (IF quirk = "none" THEN 0 ELSE 3 * WordSize)
        chunk == 3 * WordSize + w * WordSize
    IN  [k \in 1..ns |-> [at |-> at1 + (k - 1) * chunk,
                          end |-> at1 + k * chunk]]

(* 256^k: the weight of byte k of a little-endian word.                    *)
ByteWeight(k) ==
    CASE k = 0 -> 1 [] k = 1 -> 256 [] k = 2 -> 65536 [] k = 3 -> 16777216

(* The four bytes of the word w, lowest first.                             *)
Bytes(w) == [k \in 1..WordSize |-> (w \div ByteWeight(k - 1)) % 256]

(* The bytes bs as the words of a body, zero bytes filling the last word.  *)
PackWords(bs) ==
    LET n == (Len(bs) + WordSize - 1) \div WordSize
        b(j) == IF j <= Len(bs) THEN bs[j] ELSE 0
    IN  [i \in 1..n |->
            b(4 * i - 3) + 256 * b(4 * i - 2) + 65536 * b(4 * i - 1)
            + 16777216 * (IF b(4 * i) >= 128 THEN b(4 * i) - 256
                          ELSE b(4 * i))]

(* A skin chunk of one byte per pixel and one pixel: 13 bytes, so that     *)
(* what follows it does not start at a multiple of 4.                      *)
ByteSkin == [skinType |-> 1, skinWidth |-> 1, skinHeight |-> 1]

ByteSkinSize ==
    3 * WordSize + ByteSkin.skinType * ByteSkin.skinWidth * ByteSkin.skinHeight

ByteSkinBytes ==
    Bytes(ByteSkin.skinType) \o Bytes(ByteSkin.skinWidth)
    \o Bytes(ByteSkin.skinHeight) \o <<Layout.fill>>

(* A body of ns such chunks, the gap and nverts vertex records.            *)
UnalignedBody(ns, nverts) ==
    PackWords(Repeat(ns, ByteSkinBytes)
              \o Bytes(Layout.gapFirst) \o Fill(GapSize - WordSize, 0)
              \o [j \in 1..(WordSize * nverts) |->
                     Bytes(VertexWord((j - 1) \div WordSize))
                          [((j - 1) % WordSize) + 1]])

UnalignedChunks(ns) ==
    [k \in 1..ns |-> [at |-> SkinOffset + (k - 1) * ByteSkinSize,
                      end |-> SkinOffset + k * ByteSkinSize]]

UnalignedFileSizes(ns, nverts) ==
    LET skinsEnd == SkinOffset + ns * ByteSkinSize
        B == {HeaderSize, skinsEnd + GapSize,
              skinsEnd + GapSize + nverts * WordSize}
             \cup {SkinOffset + k * ByteSkinSize : k \in 1..ns}
             \cup {SkinOffset + k * ByteSkinSize + 3 * WordSize :
                       k \in 1..(ns - 1)}
    IN  {b - c : b \in {n \in B : n >= HeaderSize}, c \in 0..MaxCut}
        \cup {Max(B) + WordSize}

(* A file of fileSizeHigh * 2^32 + fileSizeLow bytes (IOStream::FileSize() *)
(* is a size_t): File builds one of less than 2^32 bytes, Huge(f, k) is f  *)
(* with k * 2^32 more bytes behind it.                                     *)
File(open, size, magic, hdr, body, chunks) ==
    [canOpen |-> open, fileSizeHigh |-> 0, fileSizeLow |-> size,
     iMagic |-> magic, hdr |-> hdr, body |-> body, chunks |-> chunks]

Huge(f, k) == [f EXCEPT !.fileSizeHigh = k]

(* Header values.                                                          *)
TriSizesX == {NaN, Inf} \cup {Fin(k, 1) : k \in 0..MaxTriSize}
TriSizesY == {NaN, Fin(0, 1), Fin(1, 1)}
MaxWidth == MaxNumVerts \div 2
NumVertsX == {NaN, Inf} \cup {Fin(k, 2) : k \in (-1)..(2 * MaxWidth + 1)}

HeaderOk(hdr) ==
    /\ IsFinite(hdr.ftrisize_x) /\ IsFinite(hdr.ftrisize_y)
    /\ ~IsZero(hdr.ftrisize_x) /\ ~IsZero(hdr.ftrisize_y)
    /\ IsFinite(hdr.fnumverts_x) /\ ~LessThanOne(hdr.fnumverts_x)
    /\ ~QuotientLessThanOne(hdr)

GridSize(hdr) == IF HeaderOk(hdr) THEN WidthOf(hdr) * HeightOf(hdr) ELSE 0

(* The input is a file that fails, or just passes, the checks of           *)
(* InternReadFile.                                                         *)
DispatchInputs ==
    LET hdr == Header(Fin(1, 1), Fin(1, 1), Fin(1, 1), 1, 1, 0)
    IN  \E o \in BOOLEAN, b \in {MinFileSize, HeaderSize}, c \in 0..MaxCut,
           m \in Magics, hi \in 0..MaxSizeHigh :
            input = Huge(File(o, b - c, m, hdr,
                              BodyWords(0, "none", 0, 1), <<>>), hi)

(* The input is a file with any combination of header values, and no skin. *)
HeaderInputs ==
    \E m \in {"HMP5_LE", "HMP7_BE"},
       s \in {HeaderSize - 1, HeaderSize,
              HeaderSize + MaxNumVerts * WordSize + WordSize},
       sx \in TriSizesX, sy \in TriSizesY, fnx \in NumVertsX,
       nv \in (-1)..MaxNumVerts, nf \in (-1)..MaxFrames,
       hi \in 0..MaxSizeHigh :
        LET hdr == Header(sx, sy, fnx, nv, nf, 0)
        IN  input = Huge(File(TRUE, s, m, hdr,
                              BodyWords(0, "none", 0, GridSize(hdr)), <<>>),
                         hi)

(* The input is a file with a valid header, 0..MaxSkins skin chunks and a  *)
(* vertex array, complete or cut short at or near the end of any of its    *)
(* parts.                                                                  *)
DecodeInputs ==
    \E fnx \in NumVertsX, nv \in 1..MaxNumVerts, ns \in 0..MaxSkins :
        LET hdr == Header(Fin(MaxTriSize, 1), Fin(1, 1), fnx, nv, 1, ns)
        IN  /\ HeaderOk(hdr)
            /\ \E q \in {"none", "retry", "fail"}, w \in 0..MaxSkinWords,
                  m \in {"HMP5_LE", "HMP7_LE"} :
                 \E s \in FileSizes(ns, q, w, GridSize(hdr)) :
                    input = File(TRUE, s, m, hdr,
                                 BodyWords(ns, q, w, GridSize(hdr)),
                                 Chunks(ns, q, w))

(* The files of DecodeInputs behind which lie 2^32 bytes or more, and      *)
(* those whose numskins field is negative, so that the header announces    *)
(* 2^32 - ns skins where the file holds ns.                                *)
OddInputs ==
    \E fnx \in NumVertsX, nv \in 1..MaxNumVerts, ns \in 0..MaxSkins,
       hi \in 0..MaxSizeHigh :
     \E hns \in (IF hi > 0 THEN {ns} ELSE {}) \cup
                (IF ns > 0 THEN {-ns} ELSE {}) :
        LET hdr == Header(Fin(MaxTriSize, 1), Fin(1, 1), fnx, nv, 1, hns)
        IN  /\ HeaderOk(hdr)
            /\ \E w \in 0..MaxSkinWords, m \in {"HMP5_LE", "HMP7_LE"} :
                 \E s \in FileSizes(ns, "none", w, GridSize(hdr)) :
                    input = Huge(File(TRUE, s, m, hdr,
                                      BodyWords(ns, "none", w, GridSize(hdr)),
                                      Chunks(ns, "none", w)), hi)

(* The input is a file with a square grid of GridSide rows and GridSide    *)
(* columns of vertices, so that the cells form several rows of several     *)
(* cells each; with or without a skin, complete or cut short.              *)
SquareInputs ==
    \E ns \in 0..1, m \in {"HMP5_LE", "HMP7_LE"} :
        LET hdr == Header(Fin(MaxTriSize, 1), Fin(1, 1), Fin(GridSide, 1),
                          GridSide * GridSide, 1, ns)
        IN  \E s \in FileSizes(ns, "none", 0, GridSize(hdr)) :
               input = File(TRUE, s, m, hdr,
                            BodyWords(ns, "none", 0, GridSize(hdr)),
                            Chunks(ns, "none", 0))

(* The input is a file whose skin chunks are 13 bytes long, so that the    *)
(* later chunks, the gap and the vertex records lie at offsets that are    *)
(* not multiples of 4; the grid has 2 x 2 vertices.                        *)
UnalignedInputs ==
    \E ns \in 1..MaxSkins, m \in {"HMP5_LE", "HMP7_LE"} :
        LET hdr == Header(Fin(MaxTriSize, 1), Fin(1, 1), Fin(2, 1),
                          2 * 2, 1, ns)
        IN  \E s \in UnalignedFileSizes(ns, GridSize(hdr)) :
               input = File(TRUE, s, m, hdr,
                            UnalignedBody(ns, GridSize(hdr)),
                            UnalignedChunks(ns))

Inputs ==
    DispatchInputs \/ HeaderInputs \/ DecodeInputs \/ OddInputs
    \/ SquareInputs \/ UnalignedInputs

-----------------------------------------------------------------------------
(* The output scene.                                                       *)

NoNode == [alloc |-> FALSE, mName |-> "", mNumMeshes |-> 0, mMeshes |-> <<>>]

(* aiScene as constructed by the caller.                                   *)
EmptyScene ==
    [mNumMeshes |-> 0, mMeshes |-> <<>>, mNumMaterials |-> 0,
     mMaterials |-> <<>>, mRootNode |-> NoNode, mFlags |-> {}]

(* new aiMesh()                                                            *)
NewMesh ==
    [mMaterialIndex |-> 0, mVertices |-> Null, mNormals |-> Null,
     mTextureCoords |-> Null, mNumUVComponents |-> 0, mNumVertices |-> 0,
     mNumFaces |-> 0, mFaces |-> Null]

(* new aiMaterial()                                                        *)
NewMaterial ==
    [origin |-> "new", name |-> "", shading |-> "", diffuse |-> <<0, 1>>,
     specular |-> <<0, 1>>, ambient |-> <<0, 1>>,
     skinOffset |-> 0, iType |-> 0, iWidth |-> 0, iHeight |-> 0]

NoError == ""
NoGrid == [mVertices |-> Null, mNormals |-> Null, mTextureCoords |-> Null]
NoOut == [pcVertices |-> <<>>, pcNormals |-> <<>>, pcUVs |-> Null,
          pcFaceOut |-> 0, pcVertOut |-> 0, pcUVOut |-> 0, iCurrent |-> 0]

Init ==
    /\ Inputs
    /\ pc = "InternReadFile"
    /\ err = NoError
    /\ scene = EmptyScene
    /\ szCurrent = 0
    /\ iSkin = 0
    /\ pcMat = NewMaterial
    /\ x = 0
    /\ y = 0
    /\ out = NoOut
    /\ skinEvents = <<>>
    /\ vertexReads = {}
    /\ grid = NoGrid
    /\ gridReads = {}
    /\ ub = {}

Throw(msg) == pc' = "failed" /\ err' = msg

Revision(magic) ==
    CASE magic \in {"HMP4_LE", "HMP4_BE"} -> 4
      [] magic \in {"HMP5_LE", "HMP5_BE"} -> 5
      [] magic \in {"HMP7_LE", "HMP7_BE"} -> 7
      [] OTHER -> 0

(* iFileSize = (unsigned int)fileSize: the low 32 bits of the file size.   *)
iFileSize == input.fileSizeLow

(* fileSize < n, for the size_t fileSize and an n below 2^32.              *)
FileSizeLess(n) == input.fileSizeHigh = 0 /\ input.fileSizeLow < n
pcHeader == input.hdr

(* A revision A routine that returns without throwing: what C6 excludes.   *)
InternReadFile_HMP4_Returns == ""

(* InternReadFile_HMP4: always throws.                                     *)
InternReadFile_HMP4 == "HMP4 is currently not supported"

(* InternReadFile, up to the call of the revision's routine.               *)
InternReadFile ==
    /\ pc = "InternReadFile"
    /\ IF ~input.canOpen
       THEN Throw("Failed to open HMP file")
       ELSE IF FileSizeLess(MinFileSize)
       THEN Throw("HMP File is too small.")
       ELSE CASE Revision(input.iMagic) = 4 ->
                    IF InternReadFile_HMP4 # NoError
                    THEN Throw(InternReadFile_HMP4)
                    ELSE pc' = "SetFlag" /\ err' = err
              [] Revision(input.iMagic) = 5 ->
                    pc' = "ValidateHeader" /\ err' = err
              [] Revision(input.iMagic) = 7 ->
                    pc' = "ValidateHeader" /\ err' = err
              [] OTHER -> Throw("Unknown HMP subformat")
    /\ UNCHANGED <<input, scene, szCurrent, iSkin, pcMat, x, y, out,
                   skinEvents, vertexReads, grid, gridReads, ub>>

(* ValidateHeader_HMP457: the message of the first check that fails.       *)
ValidateHeader(size, hdr) ==
    IF HeaderSize > size
    THEN "HMP file is too small (header size is 120 bytes, this file is smaller)"
    ELSE IF ~IsFinite(hdr.ftrisize_x) \/ ~IsFinite(hdr.ftrisize_y)
    THEN "Size of triangles in either x or y direction is not finite"
    ELSE IF IsZero(hdr.ftrisize_x) \/ IsZero(hdr.ftrisize_y)
    THEN "Size of triangles in either x or y direction is zero"
    ELSE IF ~IsFinite(hdr.fnumverts_x)
    THEN "Number of triangles in x direction is not finite"
    ELSE IF LessThanOne(hdr.fnumverts_x) \/ QuotientLessThanOne(hdr)
    THEN "Number of triangles in either x or y direction is zero"
    ELSE IF hdr.numframes = 0
    THEN "There are no frames. At least one should be there"
    ELSE NoError

(* The call of ValidateHeader_HMP457 that opens InternReadFile_HMP5 and    *)
(* InternReadFile_HMP7.                                                    *)
ValidateHeader_HMP457 ==
    /\ pc = "ValidateHeader"
    /\ LET msg == ValidateHeader(iFileSize, pcHeader)
       IN  IF msg # NoError
           THEN Throw(msg) /\ szCurrent' = szCurrent
           ELSE pc' = "Allocate" /\ err' = err /\ szCurrent' = SkinOffset
    /\ UNCHANGED <<input, scene, iSkin, pcMat, x, y, out,
                   skinEvents, vertexReads, grid, gridReads, ub>>

-----------------------------------------------------------------------------
(* Reading the buffer.                                                     *)

(* Word i of the body, from 1 (zero past the body).                        *)
BodyWord(i) == IF i <= Len(input.body) THEN input.body[i] ELSE 0

(* The four bytes that start at byte offset off >= 84 of the file, as one  *)
(* little-endian word: at a multiple of 4 a word of the body, elsewhere    *)
(* the upper 4 - r bytes of one word and the lower r bytes of the next.    *)
BufWord(off) ==
    LET i == (off - SkinOffset) \div WordSize + 1
        r == (off - SkinOffset) % WordSize
        low == ByteWeight(r)
        high == ByteWeight(WordSize - r)
        lo == (BodyWord(i) \div low) % high
        hi == BodyWord(i + 1) % low
    IN  IF r = 0 THEN BodyWord(i)
        ELSE lo + high * (IF 2 * hi >= low THEN hi - low ELSE hi)

(* The len bytes at off lie in new uint8_t[fileSize].                      *)
InBuffer(off, len) == off >= SkinOffset /\ ~FileSizeLess(off + len)

(* What a read of a word outside the buffer may yield.                     *)
GarbageWords == {0, 1}

(* A float read from memory that no array of the program owns: its bits    *)
(* are whatever lies there (a value written past the end of an array       *)
(* before, or anything else), so the value stands for every float and is   *)
(* equal to no float the program computed.                                 *)
Indeterminate == <<0, 0>>

(* What a read of a vector past the end of its array may yield.            *)
GarbageVecs == {Vec3(Indeterminate, Indeterminate, Indeterminate)}

(* A uint32_t read at mBuffer + off: outside the buffer the read is        *)
(* undefined and yields any word.  Inside it the read yields the four      *)
(* bytes at off, also when off is not a multiple of 4; such a read through *)
(* a uint32_t pointer is undefined as well (Misaligned).                   *)
ReadWord(off) ==
    IF InBuffer(off, WordSize) THEN {BufWord(off)} ELSE GarbageWords

Misaligned(offs) ==
    IF \E off \in offs : off % WordSize # 0
    THEN {"misaligned read"} ELSE {}

OutsideBuffer(offs) ==
    IF \E off \in offs : ~InBuffer(off, WordSize)
    THEN {"read outside the input buffer"} ELSE {}

(* MDLImporter::SizeCheck(mBuffer + pos) throws.                           *)
SizeCheckFails(pos) == pos > iFileSize

SizeCheckMessage ==
    "Invalid MDL file. The file is too small or contains invalid data."

(* The number of bytes ParseSkinLump_3DGS_MDL7 and SkipSkinLump_3DGS_MDL7  *)
(* advance the cursor past a skin's payload.                               *)
(* Offsets saturate at FarOffset, which lies behind the end of every file  *)
(* whose low size part the model uses.                                     *)
SatMul(a, b) ==
    IF a = 0 \/ b = 0 THEN 0
    ELSE IF a < 0 \/ b < 0 \/ a >= FarOffset \/ b >= FarOffset
            \/ a > FarOffset \div b
    THEN FarOffset
    ELSE a * b

SkinLumpSize(iType, iWidth, iHeight) == SatMul(SatMul(iType, iWidth), iHeight)

(* The material ParseSkinLump_3DGS_MDL7 fills in from the chunk at `at`.   *)
ParseSkinLump_3DGS_MDL7(mat, at, iType, iWidth, iHeight) ==
    [mat EXCEPT !.origin = "skin", !.skinOffset = at, !.iType = iType,
                !.iWidth = iWidth, !.iHeight = iHeight]

-----------------------------------------------------------------------------
(* InternReadFile_HMP5 / InternReadFile_HMP7: the output mesh.             *)

Mesh == scene.mMeshes[1]
width == WidthOf(pcHeader)
height == HeightOf(pcHeader)
Rev == Revision(input.iMagic)

AllocateMesh ==
    /\ pc = "Allocate"
    /\ scene' = [scene EXCEPT
          !.mNumMeshes = 1,
          !.mMeshes = <<[NewMesh EXCEPT
                !.mMaterialIndex = 0,
                !.mVertices = NewArray(pcHeader.numverts, ZeroVec),
                !.mNormals = NewArray(pcHeader.numverts, ZeroVec)]>>]
    /\ pc' = "CreateMaterial"
    /\ UNCHANGED <<input, err, szCurrent, iSkin, pcMat, x, y, out,
                   skinEvents, vertexReads, grid, gridReads, ub>>

InternReadFile_HMP5_Allocate == Rev = 5 /\ AllocateMesh
InternReadFile_HMP7_Allocate == Rev = 7 /\ AllocateMesh

-----------------------------------------------------------------------------
(* CreateMaterial and ReadFirstSkin.                                       *)

DefaultMaterial ==
    [NewMaterial EXCEPT !.origin = "default", !.shading = "Gouraud",
        !.diffuse = <<6, 10>>, !.specular = <<6, 10>>, !.ambient = <<5, 100>>,
        !.name = "DefaultMaterial"]

CreateMaterial ==
    /\ pc = "CreateMaterial"
    /\ IF pcHeader.numskins # 0
       THEN /\ scene' = [scene EXCEPT
                  !.mMeshes[1].mTextureCoords =
                      NewArray(pcHeader.numverts, ZeroVec),
                  !.mMeshes[1].mNumUVComponents = 2]
            /\ pc' = "ReadFirstSkin"
       ELSE /\ scene' = [scene EXCEPT !.mNumMaterials = 1,
                                      !.mMaterials = <<DefaultMaterial>>]
            /\ pc' = "Gap"
    /\ UNCHANGED <<input, err, szCurrent, iSkin, pcMat, x, y, out,
                   skinEvents, vertexReads, grid, gridReads, ub>>

(* a < b for two unsigned int whose 32 bits are held as int32_t values.    *)
ULess(a, b) == IF (a < 0) = (b < 0) THEN a < b ELSE b < 0

(* unsigned int iNumSkins = pcHeader->numskins: the same 32 bits, compared *)
(* as unsigned (ULess).                                                    *)
iNumSkins == pcHeader.numskins

(* ReadFirstSkin up to the skip loop: the type tag (read again 12 bytes    *)
(* on when it is 0), width and height, and the chunk read into pcMat.      *)
ReadFirstSkin_First ==
    /\ pc = "ReadFirstSkin"
    /\ \E t1 \in ReadWord(szCurrent) :
       \E t2 \in (IF t1 = 0 THEN ReadWord(szCurrent + 3 * WordSize)
                  ELSE {t1}) :
         LET at == IF t1 = 0 THEN szCurrent + 3 * WordSize ELSE szCurrent
             iType == t2
             reads == {szCurrent, at, at + WordSize, at + 2 * WordSize}
         IN  IF iType = 0
             THEN /\ Throw("Unable to read HMP7 skin chunk")
                  /\ ub' = ub \cup OutsideBuffer({szCurrent, at})
                              \cup Misaligned({szCurrent, at})
                  /\ UNCHANGED <<szCurrent, pcMat, skinEvents, iSkin>>
             ELSE \E iWidth \in ReadWord(at + WordSize) :
                  \E iHeight \in ReadWord(at + 2 * WordSize) :
                    LET end == at + 3 * WordSize
                               + SkinLumpSize(iType, iWidth, iHeight)
                    IN  /\ pcMat' = ParseSkinLump_3DGS_MDL7(
                                        NewMaterial, at, iType, iWidth, iHeight)
                        /\ szCurrent' = end
                        /\ skinEvents' = Append(skinEvents,
                              [op |-> "read", at |-> at, end |-> end])
                        /\ iSkin' = 1
                        /\ ub' = ub \cup OutsideBuffer(reads)
                                    \cup Misaligned(reads)
                        /\ pc' = "SkipSkins"
                        /\ err' = err
    /\ UNCHANGED <<input, scene, x, y, out, vertexReads, grid, gridReads>>

(* A skip loop that checks the cursor only, not the header it is about to  *)
(* read: what C3 excludes.                                                 *)
SkinHeaderEnd_CursorOnly(cursor) == cursor

(* szCursor + 3 * sizeof(uint32_t), checked before a skin's header is read *)
SkinHeaderEnd(cursor) == cursor + 3 * WordSize

(* One iteration of the loop that skips the other skins.                   *)
ReadFirstSkin_Skip ==
    /\ pc = "SkipSkins"
    /\ ULess(iSkin, iNumSkins)
    /\ IF SizeCheckFails(SkinHeaderEnd(szCurrent))
       THEN /\ Throw(SizeCheckMessage)
            /\ UNCHANGED <<szCurrent, skinEvents, iSkin, ub>>
       ELSE \E iType \in ReadWord(szCurrent) :
            \E iWidth \in ReadWord(szCurrent + WordSize) :
            \E iHeight \in ReadWord(szCurrent + 2 * WordSize) :
              LET end == szCurrent + 3 * WordSize
                         + SkinLumpSize(iType, iWidth, iHeight)
              IN  /\ szCurrent' = end
                  /\ skinEvents' = Append(skinEvents,
                        [op |-> "skip", at |-> szCurrent, end |-> end])
                  /\ ub' = ub \cup OutsideBuffer({szCurrent,
                              szCurrent + WordSize, szCurrent + 2 * WordSize})
                              \cup Misaligned({szCurrent})
                  /\ IF SizeCheckFails(end)
                     THEN Throw(SizeCheckMessage) /\ iSkin' = iSkin
                     ELSE pc' = pc /\ err' = err /\ iSkin' = iSkin + 1
    /\ UNCHANGED <<input, scene, pcMat, x, y, out, vertexReads, grid,
                   gridReads>>

(* After the loop: the material of the first skin goes into the scene.     *)
ReadFirstSkin_Finish ==
    /\ pc = "SkipSkins"
    /\ ~ULess(iSkin, iNumSkins)
    /\ scene' = [scene EXCEPT !.mNumMaterials = 1, !.mMaterials = <<pcMat>>]
    /\ pc' = "Gap"
    /\ UNCHANGED <<input, err, szCurrent, iSkin, pcMat, x, y, out,
                   skinEvents, vertexReads, grid, gridReads, ub>>

-----------------------------------------------------------------------------
(* InternReadFile_HMP5 / InternReadFile_HMP7: the vertex array.            *)

(* An extent check that covers the cursor only, not the vertex array: what *)
(* C2 excludes.                                                            *)
ExtentEnd_CursorOnly(cursor, h, w) == cursor

(* szCurrent + sizeof(const HMP::Vertex_HMP7) * height * width             *)
ExtentEnd(cursor, h, w) == cursor + SizeofVertexHMP7 * h * w

(* szCurrent += 36; SizeCheck(the end of the vertex array)                 *)
GapAndSizeCheck ==
    /\ pc = "Gap"
    /\ szCurrent' = szCurrent + GapSize
    /\ IF SizeCheckFails(ExtentEnd(szCurrent', height, width))
       THEN Throw(SizeCheckMessage)
       ELSE pc' = "Vertices" /\ err' = err
    /\ x' = 0
    /\ y' = 0
    /\ UNCHANGED <<input, scene, iSkin, pcMat, out,
                   skinEvents, vertexReads, grid, gridReads, ub>>

InternReadFile_HMP5_Gap == Rev = 5 /\ GapAndSizeCheck
InternReadFile_HMP7_Gap == Rev = 7 /\ GapAndSizeCheck

(* MD2::LookupNormalIndex: entry idx of the 162-entry normal table (the    *)
(* last entry for an index past the table).  The table's values are not    *)
(* part of this file; entry i stands as the vector (i, 0, 0).              *)
LookupNormalIndex(idx) ==
    Vec3(RInt(IF idx >= 162 THEN 161 ELSE idx), RInt(0), RInt(0))

(* (((float)src->z / 0xffff) - 0.5f) * pcHeader->ftrisize_x * 8.0f         *)
HeightValue(z) ==
    RMul(RMul(RSub(Rat(z, 65535), Rat(1, 2)), pcHeader.ftrisize_x.val),
         RInt(8))

Int8(b) == IF b >= 128 THEN b - 256 ELSE b

(* The position every revision decodes from record word w at cell (x, y).  *)
DecodePosition(w) ==
    Vec3(RMul(RInt(x), pcHeader.ftrisize_x.val),
         RMul(RInt(y), pcHeader.ftrisize_y.val),
         HeightValue(w % 65536))

DecodeNormal_HMP5(w) == LookupNormalIndex((w \div 65536) % 256)

DecodeNormal_HMP7(w) ==
    Normalize(Vec3(Rat(Int8((w \div 65536) % 256), 128),
                   Rat(Int8((w \div 16777216) % 256), 128),
                   RInt(1)))

(* arr[i] = v for a 0-based i; past the end of the array the write is      *)
(* undefined (it is recorded in ub and the array is kept).                 *)
Store(arr, i, v) ==
    IF i < Len(arr.elems) THEN [arr EXCEPT !.elems[i + 1] = v] ELSE arr

StoreOutside(arr, i, what) ==
    IF i < Len(arr.elems) THEN {} ELSE {what}

(* One iteration of the vertex loop: the record at src is decoded into     *)
(* *pcVertOut and *pcNorOut, and the three pointers advance.               *)
DecodeVertex(recordSize, rev) ==
    /\ pc = "Vertices"
    /\ LET i == y * width + x
           src == szCurrent + i * recordSize
       IN  \E w \in ReadWord(src) :
             /\ scene' = [scene EXCEPT
                   !.mMeshes[1].mVertices =
                       Store(Mesh.mVertices, i, DecodePosition(w)),
                   !.mMeshes[1].mNormals =
                       Store(Mesh.mNormals, i,
                             IF rev = 5 THEN DecodeNormal_HMP5(w)
                             ELSE DecodeNormal_HMP7(w))]
             /\ vertexReads' = vertexReads \cup {src}
             /\ ub' = ub \cup OutsideBuffer({src})
                         \cup StoreOutside(Mesh.mVertices, i,
                                           "write outside mVertices")
    /\ IF x + 1 < width
       THEN x' = x + 1 /\ y' = y /\ pc' = pc
       ELSE /\ x' = 0
            /\ y' = y + 1
            /\ pc' = IF y + 1 < height THEN pc ELSE "TextureCoords"
    /\ UNCHANGED <<input, err, szCurrent, iSkin, pcMat, out, skinEvents,
                   grid, gridReads>>

InternReadFile_HMP5_Vertex == Rev = 5 /\ DecodeVertex(SizeofVertexHMP5, 5)
InternReadFile_HMP7_Vertex == Rev = 7 /\ DecodeVertex(SizeofVertexHMP7, 7)

-----------------------------------------------------------------------------
(* GenerateTextureCoords.                                                  *)

(* Texture coordinates with the steps of the two axes exchanged: what C9   *)
(* excludes.                                                               *)
TextureCoord_AxesExchanged(cx, cy, w, h) ==
    LET fY == RAdd(RDiv(RInt(1), RInt(w)), RDiv(RDiv(RInt(1), RInt(w)), RInt(w)))
        fX == RAdd(RDiv(RInt(1), RInt(h)), RDiv(RDiv(RInt(1), RInt(h)), RInt(h)))
    IN  [x |-> RMul(fX, RInt(cx)), y |-> RMul(fY, RInt(cy)), z |-> RInt(0),
         len2 |-> RInt(1)]

(* The texture coordinate written for grid cell (cx, cy).                  *)
TextureCoord(cx, cy, w, h) ==
    LET fY == RAdd(RDiv(RInt(1), RInt(h)), RDiv(RDiv(RInt(1), RInt(h)), RInt(h)))
        fX == RAdd(RDiv(RInt(1), RInt(w)), RDiv(RDiv(RInt(1), RInt(w)), RInt(w)))
    IN  [x |-> RMul(fX, RInt(cx)), y |-> RMul(fY, RInt(cy)), z |-> RInt(0),
         len2 |-> RInt(1)]

(* The array uv after GenerateTextureCoords(w, h): entries 0 .. w*h-1 are  *)
(* written row by row.                                                     *)
GenerateTextureCoords(uv, w, h) ==
    IF ~uv.alloc \/ h = 0 \/ w = 0 THEN uv
    ELSE [uv EXCEPT !.elems =
            [i \in 1..Len(uv.elems) |->
                IF i <= w * h
                THEN TextureCoord((i - 1) % w, (i - 1) \div w, w, h) ELSE uv.elems[i]]]

(* if (pcHeader->numskins) GenerateTextureCoords(width, height);           *)
TextureCoords ==
    /\ pc = "TextureCoords"
    /\ IF pcHeader.numskins # 0
       THEN /\ scene' = [scene EXCEPT !.mMeshes[1].mTextureCoords =
                  GenerateTextureCoords(Mesh.mTextureCoords, width, height)]
            /\ ub' = ub \cup
                  (IF Mesh.mTextureCoords.alloc
                      /\ width * height > Len(Mesh.mTextureCoords.elems)
                   THEN {"write outside mTextureCoords"} ELSE {})
       ELSE UNCHANGED <<scene, ub>>
    /\ pc' = "FaceList"
    /\ UNCHANGED <<input, err, szCurrent, iSkin, pcMat, x, y, out,
                   skinEvents, vertexReads, grid, gridReads>>

-----------------------------------------------------------------------------
(* CreateOutputFaceList.                                                   *)

(* The value of an unsigned int that new unsigned int[4] leaves unset.     *)
Unset == -1

(* aiFace(), and the face after mNumIndices = 4, mIndices = new [4].       *)
NewFace == [mNumIndices |-> 0, mIndices |-> <<>>]
ReservedFace == [mNumIndices |-> 4, mIndices |-> <<Unset, Unset, Unset, Unset>>]

(* A face count of one face per grid column and row below the last: what   *)
(* C4 excludes.                                                            *)
NumFaces_FullRows(w, h) == w * (h - 1)

(* pcMesh->mNumFaces = (width - 1) * (height - 1)                          *)
NumFaces(w, h) == (w - 1) * (h - 1)

(* The two tests that make the loop leave the face of cell (cx, cy)        *)
(* without geometry.                                                       *)
CellSkipped(cx, cy, w, upperBound) ==
    \/ (cy * w + cx + 1) >= upperBound
    \/ ((cy + 1) * w + cx + 1) >= upperBound

(* The grid indices copied for cell (cx, cy), in the order of the copies.  *)
CellCorners(cx, cy, w) ==
    <<cy * w + cx, (cy + 1) * w + cx, (cy + 1) * w + cx + 1, cy * w + cx + 1>>

(* arr[i] for a 0-based i: past the end of the array the read is undefined *)
(* and yields any vector.                                                  *)
ReadElem(arr, i) ==
    IF i < Len(arr.elems) THEN {arr.elems[i + 1]} ELSE GarbageVecs

ReadQuad(arr, c) ==
    {<<a, b, d, e>> : a \in ReadElem(arr, c[1]), b \in ReadElem(arr, c[2]),
                      d \in ReadElem(arr, c[3]), e \in ReadElem(arr, c[4])}

(* s with q[1..4] written at the 0-based positions p .. p+3.               *)
WriteQuad(s, p, q) ==
    [i \in 1..Len(s) |-> IF i > p /\ i <= p + 4 THEN q[i - p] ELSE s[i]]

(* The allocations before the loop.                                        *)
CreateOutputFaceList_Begin ==
    /\ pc = "FaceList"
    /\ LET nf == NumFaces(width, height)
       IN  /\ scene' = [scene EXCEPT
                  !.mMeshes[1].mNumFaces = nf,
                  !.mMeshes[1].mFaces = NewArray(nf, NewFace),
                  !.mMeshes[1].mNumVertices = nf * 4]
           /\ out' = [pcVertices |-> [i \in 1..(nf * 4) |-> ZeroVec],
                      pcNormals |-> [i \in 1..(nf * 4) |-> ZeroVec],
                      pcUVs |-> IF Mesh.mTextureCoords.alloc
                                THEN NewArray(nf * 4, ZeroVec) ELSE Null,
                      pcFaceOut |-> 0, pcVertOut |-> 0, pcUVOut |-> 0,
                      iCurrent |-> 0]
    /\ grid' = [mVertices |-> Mesh.mVertices, mNormals |-> Mesh.mNormals,
                mTextureCoords |-> Mesh.mTextureCoords]
    /\ x' = 0
    /\ y' = 0
    /\ pc' = IF 0 < height - 1 /\ 0 < width - 1 THEN "Faces" ELSE "FacesEnd"
    /\ UNCHANGED <<input, err, szCurrent, iSkin, pcMat, skinEvents,
                   vertexReads, gridReads, ub>>

(* The cells visited column by column (x outer, y inner): what C10         *)
(* excludes.                                                               *)
NextCell_ColumnMajor(cx, cy, w, h) ==
    IF cy + 1 < h - 1
    THEN [x |-> cx, y |-> cy + 1, more |-> TRUE]
    ELSE [x |-> cx + 1, y |-> 0, more |-> cx + 1 < w - 1]

(* The loop counters after the iteration of cell (cx, cy): ++x in the      *)
(* inner loop, and at the end of a row x = 0 and ++y in the outer loop;    *)
(* more is FALSE when the outer loop has ended.                            *)
NextCell(cx, cy, w, h) ==
    IF cx + 1 < w - 1
    THEN [x |-> cx + 1, y |-> cy, more |-> TRUE]
    ELSE [x |-> 0, y |-> cy + 1, more |-> cy + 1 < h - 1]

(* One iteration of the inner loop: the face of cell (x, y).               *)
CreateOutputFaceList_Cell ==
    /\ pc = "Faces"
    /\ LET upperBound == Mesh.mNumVertices
           c == CellCorners(x, y, width)
           f == out.pcFaceOut + 1
       IN  IF CellSkipped(x, y, width, upperBound)
           THEN /\ scene' = [scene EXCEPT
                      !.mMeshes[1].mFaces.elems[f] = ReservedFace]
                /\ out' = [out EXCEPT !.pcFaceOut = @ + 1]
                /\ UNCHANGED <<gridReads, ub>>
           ELSE \E v \in ReadQuad(Mesh.mVertices, c) :
                \E n \in ReadQuad(Mesh.mNormals, c) :
                \E t \in (IF Mesh.mTextureCoords.alloc
                          THEN ReadQuad(Mesh.mTextureCoords, c) ELSE {<<>>}) :
                  /\ scene' = [scene EXCEPT
                        !.mMeshes[1].mFaces.elems[f] =
                            [ReservedFace EXCEPT !.mIndices =
                                [i \in 1..4 |-> out.iCurrent + i - 1]]]
                  /\ out' = [out EXCEPT
                        !.pcVertices = WriteQuad(@, out.pcVertOut, v),
                        !.pcNormals = WriteQuad(@, out.pcVertOut, n),
                        !.pcUVs = IF Mesh.mTextureCoords.alloc
                                  THEN [@ EXCEPT !.elems =
                                          WriteQuad(@, out.pcUVOut, t)]
                                  ELSE @,
                        !.pcVertOut = @ + 4,
                        !.pcUVOut = IF Mesh.mTextureCoords.alloc
                                    THEN @ + 4 ELSE @,
                        !.iCurrent = @ + 4,
                        !.pcFaceOut = @ + 1]
                  /\ gridReads' = gridReads \cup {c[i] : i \in 1..4}
                  /\ ub' = ub \cup
                        (IF \E i \in 1..4 : c[i] >= Len(Mesh.mVertices.elems)
                         THEN {"read outside mVertices"} ELSE {})
    /\ LET n == NextCell(x, y, width, height)
       IN  /\ x' = n.x
           /\ y' = n.y
           /\ pc' = IF n.more THEN pc ELSE "FacesEnd"
    /\ UNCHANGED <<input, err, szCurrent, iSkin, pcMat, skinEvents,
                   vertexReads, grid>>

(* After the loop: the grid arrays are deleted and replaced.               *)
CreateOutputFaceList_End ==
    /\ pc = "FacesEnd"
    /\ scene' = [scene EXCEPT
          !.mMeshes[1].mVertices = [alloc |-> TRUE, elems |-> out.pcVertices],
          !.mMeshes[1].mNormals = [alloc |-> TRUE, elems |-> out.pcNormals],
          !.mMeshes[1].mTextureCoords =
              IF Mesh.mTextureCoords.alloc THEN out.pcUVs ELSE @]
    /\ pc' = "RootNode"
    /\ UNCHANGED <<input, err, szCurrent, iSkin, pcMat, x, y, out,
                   skinEvents, vertexReads, grid, gridReads, ub>>

-----------------------------------------------------------------------------
(* The root node, and the terrain flag.                                    *)

RootNode ==
    /\ pc = "RootNode"
    /\ scene' = [scene EXCEPT !.mRootNode =
          [alloc |-> TRUE, mName |-> "terrain_root", mNumMeshes |-> 1,
           mMeshes |-> <<0>>]]
    /\ pc' = "SetFlag"
    /\ UNCHANGED <<input, err, szCurrent, iSkin, pcMat, x, y, out,
                   skinEvents, vertexReads, grid, gridReads, ub>>

InternReadFile_HMP5_RootNode == Rev = 5 /\ RootNode
InternReadFile_HMP7_RootNode == Rev = 7 /\ RootNode

(* A last step that leaves the flags alone: what C7 excludes.              *)
TerrainFlag_NotSet(flags) == flags

(* pScene->mFlags |= AI_SCENE_FLAGS_TERRAIN                                *)
TerrainFlag(flags) == flags \cup {"AI_SCENE_FLAGS_TERRAIN"}

(* InternReadFile after the revision's routine has returned.               *)
InternReadFile_SetFlag ==
    /\ pc = "SetFlag"
    /\ scene' = [scene EXCEPT !.mFlags = TerrainFlag(@)]
    /\ pc' = "done"
    /\ UNCHANGED <<input, err, szCurrent, iSkin, pcMat, x, y, out,
                   skinEvents, vertexReads, grid, gridReads, ub>>

Next ==
    \/ InternReadFile
    \/ ValidateHeader_HMP457
    \/ InternReadFile_HMP5_Allocate
    \/ InternReadFile_HMP7_Allocate
    \/ CreateMaterial
    \/ ReadFirstSkin_First
    \/ ReadFirstSkin_Skip
    \/ ReadFirstSkin_Finish
    \/ InternReadFile_HMP5_Gap
    \/ InternReadFile_HMP7_Gap
    \/ InternReadFile_HMP5_Vertex
    \/ InternReadFile_HMP7_Vertex
    \/ TextureCoords
    \/ CreateOutputFaceList_Begin
    \/ CreateOutputFaceList_Cell
    \/ CreateOutputFaceList_End
    \/ InternReadFile_HMP5_RootNode
    \/ InternReadFile_HMP7_RootNode
    \/ InternReadFile_SetFlag

Spec == Init /\ [][Next]_vars

-----------------------------------------------------------------------------
(* The loop body of CreateOutputFaceList on its own.                       *)
(*                                                                         *)
(* Which grid elements the body reads for cell (x, y) depends only on x,   *)
(* y, width and upperBound.  SpecCell applies the body to one cell of the  *)
(* grid of one validated header; the headers include vertex counts of      *)
(* 2^24 and more, for which a complete run takes millions of steps.  The   *)
(* arrays are not represented here, only their sizes.                      *)

MaxExcess == 3          \* SpecCell: numverts up to 2^24 + MaxExcess

CellHeaders ==
    {h \in {Header(Fin(1, 1), Fin(1, 1), fnx, nv, 1, 0) :
              fnx \in NumVertsX,
              nv \in (1..MaxNumVerts)
                     \cup {FloatMantissa + k : k \in 0..MaxExcess}} :
        HeaderOk(h) /\ WidthOf(h) >= 2 /\ HeightOf(h) >= 2}

CellInit ==
    /\ \E h \in CellHeaders :
         /\ input = File(TRUE,
                         ExtentEnd(HeaderSize, HeightOf(h), WidthOf(h)),
                         "HMP5_LE", h, <<>>, <<>>)
         /\ x \in {0, 1, WidthOf(h) - 2}
         /\ y \in {0, 1, HeightOf(h) - 2}
         /\ x < WidthOf(h) - 1
         /\ y < HeightOf(h) - 1
         /\ scene = [EmptyScene EXCEPT
               !.mNumMeshes = 1,
               !.mMeshes = <<[NewMesh EXCEPT
                     !.mNumFaces = NumFaces(WidthOf(h), HeightOf(h)),
                     !.mNumVertices = NumFaces(WidthOf(h), HeightOf(h)) * 4]>>,
               !.mNumMaterials = 1,
               !.mMaterials = <<DefaultMaterial>>]
    /\ pc = "Faces"
    /\ err = NoError
    /\ szCurrent = HeaderSize
    /\ iSkin = 0
    /\ pcMat = NewMaterial
    /\ out = NoOut
    /\ skinEvents = <<>>
    /\ vertexReads = {}
    /\ grid = NoGrid
    /\ gridReads = {}
    /\ ub = {}

(* The loop body for cell (x, y): the two tests, and the reads of the      *)
(* grid arrays (allocated with numverts elements) when both pass.          *)
FaceCell ==
    /\ pc = "Faces"
    /\ LET upperBound == Mesh.mNumVertices
           c == CellCorners(x, y, width)
       IN  IF CellSkipped(x, y, width, upperBound)
           THEN UNCHANGED <<gridReads, ub>>
           ELSE /\ gridReads' = gridReads \cup {c[i] : i \in 1..4}
                /\ ub' = ub \cup
                      (IF \E i \in 1..4 : c[i] >= pcHeader.numverts
                       THEN {"read outside mVertices"} ELSE {})
    /\ pc' = "FaceDone"
    /\ UNCHANGED <<input, err, scene, szCurrent, iSkin, pcMat, x, y, out,
                   skinEvents, vertexReads, grid>>

CellNext == FaceCell

SpecCell == CellInit /\ [][CellNext]_vars

-----------------------------------------------------------------------------
(* The writes of the decode loop and of GenerateTextureCoords on their own. *)
(*                                                                         *)
(* The element written for grid position (x, y) is y * width + x, in       *)
(* arrays allocated with numverts elements.  SpecGrid applies the two      *)
(* loop bodies to one position of the grid of one validated header, of     *)
(* either revision, with or without a skin; as in SpecCell the headers     *)
(* include vertex counts of 2^24 and more and the arrays are represented   *)
(* by their sizes.                                                         *)

GridHeaders ==
    {h \in {Header(Fin(1, 1), Fin(1, 1), fnx, nv, 1, ns) :
              fnx \in NumVertsX,
              nv \in ((-1)..MaxNumVerts)
                     \cup {FloatMantissa + k : k \in 0..MaxExcess},
              ns \in {0, 1}} :
        ValidateHeader(HeaderSize, h) = NoError}

(* The cursor behind the skins of a file with ns skin chunks.              *)
SkinsEnd(ns) ==
    IF ns = 0 THEN SkinOffset ELSE Chunks(ns, "none", 0)[ns].end

(* An allocated array whose elements are not represented.                  *)
SizeOnly == [alloc |-> TRUE, elems |-> <<>>]

(* The material ReadFirstSkin makes of the one skin chunk of the files of  *)
(* GridInit.                                                               *)
GridSkinMaterial ==
    ParseSkinLump_3DGS_MDL7(NewMaterial, SkinOffset, Layout.skinType, 0,
                            Layout.skinHeight)

(* The state in which the vertex loop is entered for position (x, y): the  *)
(* file holds the header, its skin chunk if any, the gap and the vertex    *)
(* records (only the words before the records are represented); the mesh,  *)
(* its arrays and the material are in the scene.                           *)
GridInit ==
    /\ \E h \in GridHeaders, m \in {"HMP5_LE", "HMP7_LE"} :
         /\ input = File(TRUE,
                         ExtentEnd(SkinsEnd(h.numskins) + GapSize,
                                   HeightOf(h), WidthOf(h)),
                         m, h, BodyWords(h.numskins, "none", 0, 0),
                         Chunks(h.numskins, "none", 0))
         /\ x \in {0, 1, WidthOf(h) - 1}
         /\ y \in {0, 1, HeightOf(h) - 1}
         /\ x < WidthOf(h)
         /\ y < HeightOf(h)
         /\ szCurrent = SkinsEnd(h.numskins) + GapSize
         /\ scene = [EmptyScene EXCEPT
               !.mNumMeshes = 1,
               !.mMeshes = <<[NewMesh EXCEPT
                     !.mMaterialIndex = 0,
                     !.mVertices = SizeOnly,
                     !.mNormals = SizeOnly,
                     !.mTextureCoords =
                         IF h.numskins # 0 THEN SizeOnly ELSE Null,
                     !.mNumUVComponents =
                         IF h.numskins # 0 THEN 2 ELSE 0]>>,
               !.mNumMaterials = 1,
               !.mMaterials = <<IF h.numskins # 0 THEN GridSkinMaterial
                                ELSE DefaultMaterial>>]
         /\ iSkin = IF h.numskins # 0 THEN 1 ELSE 0
         /\ pcMat = IF h.numskins # 0 THEN GridSkinMaterial ELSE NewMaterial
         /\ skinEvents =
               IF h.numskins # 0
               THEN <<[op |-> "read", at |-> SkinOffset,
                       end |-> SkinsEnd(h.numskins)]>>
               ELSE <<>>
    /\ pc = "Vertices"
    /\ err = NoError
    /\ out = NoOut
    /\ vertexReads = {}
    /\ grid = NoGrid
    /\ gridReads = {}
    /\ ub = {}

(* The body of the vertex loop for position (x, y): the writes through     *)
(* pcVertOut and pcNorOut, into new aiVector3D[pcHeader->numverts].        *)
GridVertex ==
    /\ pc = "Vertices"
    /\ LET i == y * width + x
       IN  ub' = ub \cup (IF i >= pcHeader.numverts
                          THEN {"write outside mVertices"} ELSE {})
    /\ pc' = "TextureCoords"
    /\ UNCHANGED <<input, err, scene, szCurrent, iSkin, pcMat, x, y, out,
                   skinEvents, vertexReads, grid, gridReads>>

(* if (pcHeader->numskins) GenerateTextureCoords(width, height): the body  *)
(* of its loop for position (x, y), the write through uv into              *)
(* new aiVector3D[pcHeader->numverts].                                     *)
GridTextureCoord ==
    /\ pc = "TextureCoords"
    /\ LET i == y * width + x
       IN  ub' = ub \cup (IF pcHeader.numskins # 0 /\ i >= pcHeader.numverts
                          THEN {"write outside mTextureCoords"} ELSE {})
    /\ pc' = "GridDone"
    /\ UNCHANGED <<input, err, scene, szCurrent, iSkin, pcMat, x, y, out,
                   skinEvents, vertexReads, grid, gridReads>>

GridNext ==
    \/ GridVertex
    \/ GridTextureCoord

SpecGrid == GridInit /\ [][GridNext]_vars

-----------------------------------------------------------------------------
(* The error kinds of the specification, by the message thrown.            *)

ErrorKind(msg) ==
    CASE msg \in {"Failed to open HMP file", "HMP File is too small."}
            -> "OpenOrSizeError"
      [] msg = "Unknown HMP subformat" -> "UnrecognizedSubformat"
      [] msg = "HMP4 is currently not supported" -> "UnsupportedRevision"
      [] msg = SizeCheckMessage -> "TruncatedInput"
      [] msg = "Unable to read HMP7 skin chunk" -> "UnreadableSkinChunk"
      [] msg = NoError -> "None"
      [] OTHER -> "InvalidHeader"

Failed == pc = "failed"
Decoding == Rev \in {5, 7}
PastExtentCheck ==
    pc \in {"Vertices", "TextureCoords", "FaceList", "Faces", "FacesEnd",
            "RootNode", "SetFlag", "done"}
PastFaceList == Decoding /\ pc \in {"RootNode", "SetFlag", "done"}
RecordSize == IF Rev = 5 THEN SizeofVertexHMP5 ELSE SizeofVertexHMP7
Material == scene.mMaterials[1]
HasTerrainFlag == "AI_SCENE_FLAGS_TERRAIN" \in scene.mFlags

-----------------------------------------------------------------------------
(* C1: whenever InternReadFile has failed, the scene is exactly as before  *)
(* the call: no mesh, no material, no root node, no flag.                  *)
C1_AllOrNothing == Failed => scene = EmptyScene

(* C2: every vertex record read lies inside the input buffer; the check of *)
(* the whole vertex array (cursor after the gap + height * width * record  *)
(* size <= buffer end) has passed before the first record is read; and a   *)
(* run that fails, also on that check with TruncatedInput, has read no     *)
(* vertex record.                                                          *)
C2_VertexReadsInBounds ==
    /\ \A off \in vertexReads :
          off >= HeaderSize /\ off + RecordSize <= iFileSize
    /\ (vertexReads # {} \/ PastExtentCheck) =>
          /\ Decoding
          /\ szCurrent + height * width * RecordSize <= iFileSize
    /\ Failed => vertexReads = {}
    /\ (Failed /\ scene.mNumMaterials = 1) =>
          /\ ErrorKind(err) = "TruncatedInput"
          /\ szCurrent + height * width * RecordSize > iFileSize

(* C2 witness: all records of a 2x2 or larger grid have been read from a   *)
(* file that ends exactly where the vertex array ends.                     *)
C2_Witness ==
    /\ pc = "TextureCoords"
    /\ Cardinality(vertexReads) = width * height
    /\ width * height >= 4
    /\ szCurrent + height * width * RecordSize = iFileSize

C4_FaceCount ==
    (PastFaceList /\ width >= 2 /\ height >= 2) =>
        LET n == (width - 1) * (height - 1)
        IN  /\ Mesh.mNumFaces = n
            /\ Len(Mesh.mFaces.elems) = n
            /\ \A f \in 1..n :
                  /\ Mesh.mFaces.elems[f].mNumIndices = 4
                  /\ Len(Mesh.mFaces.elems[f].mIndices) = 4
            /\ Mesh.mNumVertices = 4 * n
            /\ Len(Mesh.mVertices.elems) = 4 * n
            /\ Len(Mesh.mNormals.elems) = 4 * n

(* C4 witness: the face list of a 3x2 grid has been built.                 *)
C4_Witness == PastFaceList /\ width = 3 /\ height = 2

(* The number of the first check of the list of C5 that the header fails,  *)
(* 0 when it passes all six.                                               *)
FirstViolatedCheck ==
    LET h == pcHeader
    IN  IF FileSizeLess(120) THEN 1
        ELSE IF ~IsFinite(h.ftrisize_x) \/ ~IsFinite(h.ftrisize_y) THEN 2
        ELSE IF h.ftrisize_x.val[1] = 0 \/ h.ftrisize_y.val[1] = 0 THEN 3
        ELSE IF ~IsFinite(h.fnumverts_x) THEN 4
        ELSE IF ~(h.fnumverts_x.val[1] >= h.fnumverts_x.val[2]
                  /\ h.numverts * h.fnumverts_x.val[2] >= h.fnumverts_x.val[1])
        THEN 5
        ELSE IF ~(h.numframes >= 1) THEN 6
        ELSE 0

CheckMessage ==
    <<"HMP file is too small (header size is 120 bytes, this file is smaller)",
      "Size of triangles in either x or y direction is not finite",
      "Size of triangles in either x or y direction is zero",
      "Number of triangles in x direction is not finite",
      "Number of triangles in either x or y direction is zero",
      "There are no frames. At least one should be there">>

(* C5: for a revision B or C file, validation runs before any output is    *)
(* created; the decode fails with the reason of the first of the six       *)
(* checks that is violated, and goes on only if all six hold (the sixth:   *)
(* frame count >= 1).                                                      *)
C5_HeaderValidation ==
    (input.canOpen /\ ~FileSizeLess(MinFileSize) /\ Decoding
        /\ pc \notin {"InternReadFile", "ValidateHeader"}) =>
        IF FirstViolatedCheck = 0
        THEN ErrorKind(err) # "InvalidHeader"
        ELSE /\ Failed
             /\ ErrorKind(err) = "InvalidHeader"
             /\ err = CheckMessage[FirstViolatedCheck]
             /\ scene = EmptyScene

(* C6: a file of at least 50 bytes with a revision A magic fails with      *)
(* UnsupportedRevision and the scene is untouched.                         *)
C6_UnsupportedRevision ==
    (input.canOpen /\ ~FileSizeLess(50) /\ Rev = 4
        /\ pc # "InternReadFile") =>
        /\ Failed
        /\ ErrorKind(err) = "UnsupportedRevision"
        /\ scene = EmptyScene
        /\ ~HasTerrainFlag

(* C6 witness: the big-endian revision A magic has been rejected.          *)
C6_Witness ==
    /\ Failed
    /\ input.iMagic = "HMP4_BE"
    /\ iFileSize >= HeaderSize
    /\ ErrorKind(err) = "UnsupportedRevision"

(* C7: a finished decode leaves one mesh with material index 0, one        *)
(* material (the default one without skins, else the one of the first skin *)
(* chunk), one root node holding mesh 0, and the terrain flag; the flag is *)
(* set by the last step only, after a decode routine that did not fail.    *)
C7_SuccessShape ==
    /\ pc = "done" =>
          /\ Decoding /\ err = NoError
          /\ scene.mNumMeshes = 1 /\ Len(scene.mMeshes) = 1
          /\ Mesh.mMaterialIndex = 0
          /\ scene.mNumMaterials = 1 /\ Len(scene.mMaterials) = 1
          /\ IF pcHeader.numskins = 0
             THEN Material = DefaultMaterial
             ELSE /\ Material.origin = "skin"
                  /\ Material.skinOffset = input.chunks[1].at
          /\ scene.mRootNode.alloc
          /\ scene.mRootNode.mNumMeshes = 1
          /\ scene.mRootNode.mMeshes = <<0>>
          /\ HasTerrainFlag
    /\ HasTerrainFlag => pc = "done"
    /\ pc = "SetFlag" => (Decoding /\ err = NoError /\ scene.mRootNode.alloc)

(* C7 witness: a revision C file with three skins has been decoded.        *)
C7_Witness ==
    pc = "done" /\ Rev = 7 /\ pcHeader.numskins = 3 /\ HasTerrainFlag

(* The vector v is (cx * (1/w + 1/w^2), cy * (1/h + 1/h^2), 0).            *)
IsTextureCoordOf(v, cx, cy, w, h) ==
    /\ v.x[1] * (w * w) = v.x[2] * (cx * (w + 1))
    /\ v.y[1] * (h * h) = v.y[2] * (cy * (h + 1))
    /\ v.z[1] = 0
    /\ v.len2 = <<1, 1>>

(* C9: the mesh has a UV buffer iff numskins # 0; the UV generated for     *)
(* grid cell (cx, cy) is (cx * (1/w + 1/w^2), cy * (1/h + 1/h^2)) under    *)
(* either revision; after face assembly the UV buffer has 4 * faceCount    *)
(* elements, the four of a face being those of the corners (cx, cy),       *)
(* (cx, cy+1), (cx+1, cy+1), (cx+1, cy) of its cell.                       *)
C9_TextureCoords ==
    PastFaceList =>
        /\ Mesh.mTextureCoords.alloc <=> (pcHeader.numskins # 0)
        /\ pcHeader.numskins # 0 =>
              /\ \A cx \in 0..(width - 1) : \A cy \in 0..(height - 1) :
                    IsTextureCoordOf(
                        grid.mTextureCoords.elems[cy * width + cx + 1],
                        cx, cy, width, height)
              /\ Len(Mesh.mTextureCoords.elems)
                    = 4 * (width - 1) * (height - 1)
              /\ \A cx \in 0..(width - 2) : \A cy \in 0..(height - 2) :
                    LET k == cy * (width - 1) + cx
                        uv == Mesh.mTextureCoords.elems
                    IN  /\ IsTextureCoordOf(uv[4 * k + 1], cx, cy,
                                            width, height)
                        /\ IsTextureCoordOf(uv[4 * k + 2], cx, cy + 1,
                                            width, height)
                        /\ IsTextureCoordOf(uv[4 * k + 3], cx + 1, cy + 1,
                                            width, height)
                        /\ IsTextureCoordOf(uv[4 * k + 4], cx + 1, cy,
                                            width, height)

(* C9 witness: a revision B file with a skin and a 3x2 grid is decoded.    *)
C9_Witness ==
    /\ pc = "done" /\ Rev = 5 /\ pcHeader.numskins # 0
    /\ width = 3 /\ height = 2
    /\ Mesh.mTextureCoords.alloc

(* C10: cells are visited row by row; the k-th face, of cell (cx, cy),     *)
(* holds the indices 4k .. 4k+3, and the vertex and normal buffers hold    *)
(* there the grid entries of (cx, cy), (cx, cy+1), (cx+1, cy+1),           *)
(* (cx+1, cy); no index belongs to two faces and all are < 4 * faceCount.  *)
C10_Winding ==
    PastFaceList =>
        LET faces == Mesh.mFaces.elems
            gv == grid.mVertices.elems
            gn == grid.mNormals.elems
            at(cx, cy) == cy * width + cx + 1
        IN  /\ \A cx \in 0..(width - 2) : \A cy \in 0..(height - 2) :
                  LET k == cy * (width - 1) + cx
                      corners == <<at(cx, cy), at(cx, cy + 1),
                                   at(cx + 1, cy + 1), at(cx + 1, cy)>>
                  IN  /\ faces[k + 1].mIndices
                            = <<4 * k, 4 * k + 1, 4 * k + 2, 4 * k + 3>>
                      /\ \A j \in 1..4 :
                            /\ Mesh.mVertices.elems[4 * k + j]
                                  = gv[corners[j]]
                            /\ Mesh.mNormals.elems[4 * k + j]
                                  = gn[corners[j]]
            /\ \A f \in 1..Len(faces) : \A g \in 1..Len(faces) :
               \A i \in 1..4 : \A j \in 1..4 :
                  /\ faces[f].mIndices[i] >= 0
                  /\ faces[f].mIndices[i] < 4 * Mesh.mNumFaces
                  /\ (faces[f].mIndices[i] = faces[g].mIndices[j])
                        => (f = g /\ i = j)

(* C10 witness: a 3x3 grid is decoded into the four faces of its 2x2      *)
(* cells.  The second face is that of cell (1, 0) and the third that of    *)
(* cell (0, 1): their first vertices are the grid entries 1 and 3, which   *)
(* differ, so the order of the rows and the columns shows in the output.   *)
C10_Witness ==
    /\ pc = "done"
    /\ width = 3 /\ height = 3
    /\ Mesh.mNumFaces = 4
    /\ Mesh.mFaces.elems[2].mIndices = <<4, 5, 6, 7>>
    /\ Mesh.mFaces.elems[3].mIndices = <<8, 9, 10, 11>>
    /\ Mesh.mVertices.elems[5] = grid.mVertices.elems[2]
    /\ Mesh.mVertices.elems[9] = grid.mVertices.elems[4]
    /\ grid.mVertices.elems[2] # grid.mVertices.elems[4]
    /\ gridReads = 0..8

(* C8: no read of the grid's vertex, normal or UV array uses an index at   *)
(* or past the number of elements allocated for it, numverts: a cell with  *)
(* such an index gets a face with 4 indices reserved and no geometry.      *)
C8_NoReadPastAllocation ==
    /\ \A i \in gridReads : i < pcHeader.numverts
    /\ "read outside mVertices" \notin ub

(* C11: for every header that passes ValidateHeader_HMP457 the grid has    *)
(* 1 <= width * height <= numverts, width - 1 and height - 1 do not        *)
(* underflow, and no write of the decode loop or of GenerateTextureCoords  *)
(* goes past the vertex, normal and UV arrays of numverts elements.        *)
C11_GridFitsAllocation ==
    pc \in {"TextureCoords", "GridDone"} =>
        /\ width >= 1 /\ height >= 1
        /\ 1 <= width * height
        /\ width * height <= pcHeader.numverts
        /\ "write outside mVertices" \notin ub
        /\ "write outside mTextureCoords" \notin ub

====
